---------------------------- MODULE Spec2Model ----------------------------
(***************************************************************************)
(* Textbook RSA of rsa_project/src/main.rs: the Miller-Rabin tester        *)
(* is_probably_prime, the prime generator gerar_primo, the key generator   *)
(* gerar_chaves, the cipher criptografar / descriptografar and the codec   *)
(* string_para_biguint / biguint_para_string.                              *)
(*                                                                         *)
(* The program keeps no state between calls; the state of the model is the *)
(* position (pc) of the call in progress together with its locals.  The    *)
(* operating-system random generator (OsRng) is a nondeterministic choice  *)
(* over the values the library call can return.  BigUint values are        *)
(* unbounded in the program; the model keeps every value below 2^31 by     *)
(* its bounds, so no arithmetic of the model wraps.                        *)
(***************************************************************************)
EXTENDS Integers, Sequences, FiniteSets

VARIABLES
    pc,             \* position of the call in progress
    caller,         \* who called is_probably_prime: "main" or "gerar_primo"
    mr_n, mr_k,     \* is_probably_prime: arguments n and k
    mr_r, mr_d,     \* is_probably_prime: n - 1 = 2^r * d with d odd
    mr_i,           \* is_probably_prime: trials completed
    mr_a,           \* is_probably_prime: witness of the last trial (0: none drawn)
    mr_ret,         \* is_probably_prime: returned value
    tamanho_bits,   \* gerar_chaves: argument
    stage,          \* gerar_chaves: which prime is being generated, "p" or "q"
    p, q,           \* gerar_chaves: the two primes (0: not generated yet)
    phi_n,          \* gerar_chaves: (p - 1) * (q - 1)
    chave_publica,  \* [n, e]
    chave_privada,  \* [n, d]
    m, c, m_dec,    \* message, ciphertext, decrypted message
    texto,          \* codec: the text, a sequence of Unicode scalar values
    numero,         \* codec: the integer
    saida,          \* codec: the decoded text
    panic_site      \* where the program panicked ("" when it did not)

vars == << pc, caller, mr_n, mr_k, mr_r, mr_d, mr_i, mr_a, mr_ret,
           tamanho_bits, stage, p, q, phi_n, chave_publica, chave_privada,
           m, c, m_dec, texto, numero, saida, panic_site >>

mr_vars    == << mr_n, mr_k, mr_r, mr_d, mr_i, mr_a, mr_ret >>
key_vars   == << tamanho_bits, stage, p, q, phi_n, chave_publica, chave_privada >>
msg_vars   == << m, c, m_dec >>
codec_vars == << texto, numero, saida >>

---------------------------------------------------------------------------
(* Program constants *)

\* let e = BigUint::from(65537u32);
E == 65537

\* is_probably_prime(&n, 30) in gerar_primo
Rounds == 30

\* let tamanho_chave = 512; in main
TamanhoChave == 512

(* Bounds of the model *)

\* is_probably_prime is called directly with every n in 0..MaxN
MaxN == 21

\* ... and every k in 1..MaxK
MaxK == 3

\* gerar_chaves is called with 2 * SmallBits bits: gerar_primo then draws
\* every candidate of 0 .. 2^SmallBits - 1
SmallBits == 3

\* of a generator range the model draws the MaxDraw lowest and the MaxDraw
\* highest values (all of them when the range has at most 2 * MaxDraw)
MaxDraw == 9

\* the second prime is drawn only when p * q stays at most MaxModulus
MaxModulus == 16777216

\* texts of at most MaxTextoBytes bytes are encoded
MaxTextoBytes == 2

---------------------------------------------------------------------------
(* Arithmetic of the big-integer library *)

Min(x, y) == IF x <= y THEN x ELSE y
Max(x, y) == IF x >= y THEN x ELSE y

RECURSIVE Pow2(_)
Pow2(b) == IF b = 0 THEN 1 ELSE 2 * Pow2(b - 1)

\* number of significant bits of v (BigUint::bits)
RECURSIVE BitLen(_)
BitLen(v) == IF v = 0 THEN 0 ELSE 1 + BitLen(v \div 2)

\* (x * y) mod mo for x < mo; above 2^15 seven bits of y at a time, so that
\* no intermediate value of the model exceeds 128 * mo
RECURSIVE MulMod(_, _, _)
MulMod(x, y, mo) ==
    IF mo <= 32768 THEN ((x % mo) * (y % mo)) % mo
    ELSE IF x = 0 \/ y = 0 THEN 0
    ELSE LET h == MulMod(x, y \div 128, mo)
         IN  (((h * 128) % mo) + ((x * (y % 128)) % mo)) % mo

\* BigUint::modpow(exp, modulus): base^exp mod modulus, 1 mod modulus when
\* exp = 0 (the library panics on modulus 0, which no call here passes)
RECURSIVE ModPow(_, _, _)
ModPow(base, exp, mo) ==
    IF exp = 0 THEN 1 % mo
    ELSE LET h == ModPow(base, exp \div 2, mo)
             s == MulMod(h, h, mo)
         IN  IF exp % 2 = 1 THEN MulMod(s, base % mo, mo) ELSE s

\* the values the model draws of the generator range lo .. hi
Draws(lo, hi) ==
    (lo .. Min(hi, lo + MaxDraw - 1)) \cup (Max(lo, hi - MaxDraw + 1) .. hi)

---------------------------------------------------------------------------
(* is_probably_prime *)

\* the three early returns: "false", "true", or "loop" for odd n > 2
BaseCaseNoTwo(n) ==
    IF n <= 1 THEN "false"
    ELSE IF n % 2 = 0 THEN "false"
    ELSE "loop"

BaseCase(n) ==
    IF n <= 1 THEN "false"
    ELSE IF n = 2 THEN "true"
    ELSE IF n % 2 = 0 THEN "false"
    ELSE "loop"

\* while d.is_even() { d >>= 1; r += 1; }   (called with v = n - 1 > 0)
RECURSIVE OddPart(_)
OddPart(v) == IF v % 2 = 0 THEN OddPart(v \div 2) ELSE v

RECURSIVE TwoExp(_)
TwoExp(v) == IF v % 2 = 0 THEN 1 + TwoExp(v \div 2) ELSE 0

\* rng.gen_biguint_range(&2, &(n - 2)) + 2: the library asserts
\* lbound < ubound and returns a value of lbound .. ubound - 1
WitnessRangeEmpty(n) == ~(2 < n - 2)
WitnessLo(n) == 2 + 2
WitnessHi(n) == (n - 2 - 1) + 2

\* for _ in 0..r-1 { x = x^2 mod n; ... } return false;
\* with `left` iterations to go
RECURSIVE SquaringLoop(_, _, _)
SquaringLoop(x, left, n) ==
    IF left = 0 THEN "return_false"
    ELSE LET y == ModPow(x, 2, n)
         IN  IF y = 1 THEN "return_false"
             ELSE IF y = n - 1 THEN "next_witness"
             ELSE SquaringLoop(y, left - 1, n)

\* the body of one trial with witness a
WitnessTrialNoMinusOne(a, n, d, r) ==
    LET x == ModPow(a, d, n)
    IN  IF x = 1 THEN "next_witness"
        ELSE SquaringLoop(x, r - 1, n)

WitnessTrial(a, n, d, r) ==
    LET x == ModPow(a, d, n)
    IN  IF x = 1 \/ x = n - 1 THEN "next_witness"
        ELSE SquaringLoop(x, r - 1, n)

\* entry of is_probably_prime(n, k), lines 19-38, and the loop exit when k = 0
Enter(n, k, who) ==
    /\ caller' = who
    /\ mr_n' = n
    /\ mr_k' = k
    /\ mr_i' = 0
    /\ mr_a' = 0
    /\ IF BaseCase(n) = "loop"
       THEN /\ mr_d' = OddPart(n - 1)
            /\ mr_r' = TwoExp(n - 1)
            /\ IF k = 0
               THEN pc' = "mr_ret" /\ mr_ret' = TRUE
               ELSE pc' = "mr_loop" /\ mr_ret' = FALSE
       ELSE /\ mr_d' = 0
            /\ mr_r' = 0
            /\ pc' = "mr_ret"
            /\ mr_ret' = (BaseCase(n) = "true")

\* main-level call is_probably_prime(n, k)
CallIsProbablyPrime ==
    /\ pc = "idle"
    /\ \E n \in 0 .. MaxN, k \in 1 .. MaxK : Enter(n, k, "main")
    /\ UNCHANGED << key_vars, msg_vars, codec_vars, panic_site >>

\* the generator's assertion fails: the thread panics
WitnessPanic ==
    /\ pc = "mr_loop"
    /\ WitnessRangeEmpty(mr_n)
    /\ pc' = "panic"
    /\ panic_site' = "gen_biguint_range"
    /\ UNCHANGED << caller, mr_vars, key_vars, msg_vars, codec_vars >>

\* one iteration of 'next_witness: for _ in 0..k
Witness ==
    /\ pc = "mr_loop"
    /\ ~WitnessRangeEmpty(mr_n)
    /\ \E a \in Draws(WitnessLo(mr_n), WitnessHi(mr_n)) :
         /\ mr_a' = a
         /\ IF WitnessTrial(a, mr_n, mr_d, mr_r) = "next_witness"
            THEN /\ mr_i' = mr_i + 1
                 /\ IF mr_i + 1 = mr_k
                    THEN pc' = "mr_ret" /\ mr_ret' = TRUE
                    ELSE pc' = "mr_loop" /\ mr_ret' = FALSE
            ELSE /\ mr_i' = mr_i
                 /\ pc' = "mr_ret"
                 /\ mr_ret' = FALSE
    /\ UNCHANGED << caller, mr_n, mr_k, mr_r, mr_d,
                    key_vars, msg_vars, codec_vars, panic_site >>

---------------------------------------------------------------------------
(* gerar_primo and gerar_chaves *)

\* the smallest prime p with E dividing p - 1: the candidate of the model
\* for which gcd(e, phi_n) is not 1
BigPrime == 14 * E + 1

\* rng.gen_biguint(bits): a uniformly random value of 0 .. 2^bits - 1.
\* The model draws all of them up to SmallBits bits, and BigPrime.
GenBiguint(bits) ==
    { v \in (0 .. Pow2(Min(bits, SmallBits)) - 1) \cup {BigPrime} :
        v < Pow2(bits) }

\* the argument values of gerar_chaves the model calls it with
TamanhoSample == { 2 * SmallBits, 2 * BitLen(BigPrime) }

\* Integer::extended_gcd of num-integer, from the state (r, s, t) of its
\* loop: returns [gcd, x, y] with self * x + other * y = gcd
RECURSIVE EgcdLoop(_, _, _, _, _, _)
EgcdLoop(r0, r1, s0, s1, t0, t1) ==
    IF r0 = 0
    THEN IF r1 >= 0 THEN [gcd |-> r1, x |-> s1, y |-> t1]
         ELSE [gcd |-> 0 - r1, x |-> 0 - s1, y |-> 0 - t1]
    ELSE LET quo == r1 \div r0
         IN  EgcdLoop(r1 - quo * r0, r0, s1 - quo * s0, s0, t1 - quo * t0, t0)

extended_gcd(self, other) == EgcdLoop(other, self, 0, 1, 1, 0)

\* e.extended_gcd(&phi_n).x.rem_euclid(&phi_n), for phi_n > 0
DBigintFromY(e, phi) == extended_gcd(e, phi).y % phi

DBigint(e, phi) == extended_gcd(e, phi).x % phi

NoKey == [n |-> 0, e |-> 0]
NoPriv == [n |-> 0, d |-> 0]

\* main-level call gerar_chaves(tamanho_bits)
CallGerarChaves ==
    /\ pc = "idle"
    /\ \E t \in TamanhoSample : tamanho_bits' = t
    /\ stage' = "p"
    /\ pc' = "gp_loop"
    /\ UNCHANGED << caller, mr_vars, p, q, phi_n, chave_publica, chave_privada,
                    msg_vars, codec_vars, panic_site >>

\* the product of the two primes stays within the model's integers
Fits(n) == IF stage = "p" \/ n = 0 THEN TRUE ELSE p <= MaxModulus \div n

\* gerar_primo, one iteration of its loop up to the call of the tester:
\* let n = rng.gen_biguint(bits); is_probably_prime(&n, 30)
GerarPrimoSample ==
    /\ pc = "gp_loop"
    /\ \E n \in GenBiguint(tamanho_bits \div 2) :
         /\ Fits(n)
         /\ Enter(n, Rounds, "gerar_primo")
    /\ UNCHANGED << key_vars, msg_vars, codec_vars, panic_site >>

\* gerar_primo, after the tester returned: return n, or loop.  The value
\* returned is bound to p, then to q, in gerar_chaves; the locals of the
\* tester are gone.
GerarPrimoTest ==
    /\ pc = "mr_ret"
    /\ caller = "gerar_primo"
    /\ IF ~mr_ret
       THEN pc' = "gp_loop" /\ UNCHANGED << stage, p, q >>
       ELSE IF stage = "p"
       THEN p' = mr_n /\ stage' = "q" /\ pc' = "gp_loop" /\ UNCHANGED q
       ELSE q' = mr_n /\ pc' = "derive" /\ UNCHANGED << stage, p >>
    /\ mr_n' = 0 /\ mr_k' = 0 /\ mr_r' = 0 /\ mr_d' = 0
    /\ mr_i' = 0 /\ mr_a' = 0 /\ mr_ret' = FALSE
    /\ UNCHANGED << caller, tamanho_bits, phi_n, chave_publica,
                    chave_privada, msg_vars, codec_vars, panic_site >>

\* gerar_chaves, lines 79-105: n, phi_n, e, d and the two keys.  rem_euclid
\* panics on a zero divisor and unwrap on a negative d_bigint.
DerivarChaves ==
    /\ pc = "derive"
    /\ LET n  == p * q
           ph == (p - 1) * (q - 1)
       IN  /\ phi_n' = ph
           /\ IF ph = 0
              THEN /\ pc' = "panic"
                   /\ panic_site' = "rem_euclid"
                   /\ UNCHANGED << chave_publica, chave_privada >>
              ELSE IF DBigint(E, ph) < 0
              THEN /\ pc' = "panic"
                   /\ panic_site' = "to_biguint"
                   /\ UNCHANGED << chave_publica, chave_privada >>
              ELSE /\ pc' = "keys"
                   /\ chave_publica' = [n |-> n, e |-> E]
                   /\ chave_privada' = [n |-> n, d |-> DBigint(E, ph)]
                   /\ UNCHANGED panic_site
    /\ UNCHANGED << caller, mr_vars, tamanho_bits, stage, p, q,
                    msg_vars, codec_vars >>

---------------------------------------------------------------------------
(* Cipher *)

criptografar(msg, pub) == ModPow(msg, pub.e, pub.n)

descriptografar(cif, priv) == ModPow(cif, priv.d, priv.n)

\* let c = criptografar(&m, &chave_publica), for a message m below n
Criptografar ==
    /\ pc = "keys"
    /\ \E msg \in Draws(0, chave_publica.n - 1) :
         /\ m' = msg
         /\ c' = criptografar(msg, chave_publica)
    /\ pc' = "encrypted"
    /\ UNCHANGED << caller, mr_vars, key_vars, m_dec, codec_vars, panic_site >>

\* let m_descriptografado = descriptografar(&c, &chave_privada)
Descriptografar ==
    /\ pc = "encrypted"
    /\ m_dec' = descriptografar(c, chave_privada)
    /\ pc' = "decrypted"
    /\ UNCHANGED << caller, mr_vars, key_vars, m, c, codec_vars, panic_site >>

---------------------------------------------------------------------------
(* Codec.  A text is a sequence of Unicode scalar values; a &str holds its *)
(* UTF-8 encoding.                                                         *)

\* the UTF-8 encoding of one scalar value below 2^16
Utf8Char(cp) ==
    IF cp < 128 THEN << cp >>
    ELSE IF cp < 2048 THEN << 192 + (cp \div 64), 128 + (cp % 64) >>
    ELSE << 224 + (cp \div 4096), 128 + ((cp \div 64) % 64), 128 + (cp % 64) >>

\* texto.as_bytes()
RECURSIVE as_bytes(_)
as_bytes(t) == IF t = << >> THEN << >> ELSE Utf8Char(Head(t)) \o as_bytes(Tail(t))

\* BigUint::from_bytes_be: the bytes as base-256 digits, most significant first
RECURSIVE FromBytesAcc(_, _)
FromBytesAcc(acc, bytes) ==
    IF bytes = << >> THEN acc
    ELSE FromBytesAcc((acc * 256) + Head(bytes), Tail(bytes))

from_bytes_be(bytes) == FromBytesAcc(0, bytes)

\* BigUint::to_bytes_be: the base-256 digits without leading zeros, and the
\* single byte 0 for zero
RECURSIVE Digits256(_)
Digits256(v) == IF v = 0 THEN << >> ELSE Append(Digits256(v \div 256), v % 256)

to_bytes_le(v) ==
    IF v = 0 THEN << 0 >>
    ELSE [i \in 1 .. Len(Digits256(v)) |->
             Digits256(v)[Len(Digits256(v)) + 1 - i]]

to_bytes_be(v) == IF v = 0 THEN << 0 >> ELSE Digits256(v)

IsCont(b) == 128 <= b /\ b <= 191

\* String::from_utf8: [ok, s], ok = FALSE when the bytes are not UTF-8
RECURSIVE from_utf8(_)
from_utf8(bytes) ==
    IF bytes = << >> THEN [ok |-> TRUE, s |-> << >>]
    ELSE LET b0  == bytes[1]
             len == IF b0 < 128 THEN 1
                    ELSE IF 194 <= b0 /\ b0 <= 223 THEN 2
                    ELSE IF 224 <= b0 /\ b0 <= 239 THEN 3
                    ELSE IF 240 <= b0 /\ b0 <= 244 THEN 4
                    ELSE 0
             good == /\ len > 0
                     /\ Len(bytes) >= len
                     /\ \A i \in 2 .. len : IsCont(bytes[i])
                     /\ (b0 = 224 => bytes[2] >= 160)
                     /\ (b0 = 237 => bytes[2] <= 159)
                     /\ (b0 = 240 => bytes[2] >= 144)
                     /\ (b0 = 244 => bytes[2] <= 143)
             cp  == IF len = 1 THEN b0
                    ELSE IF len = 2 THEN (b0 - 192) * 64 + (bytes[2] - 128)
                    ELSE IF len = 3
                    THEN (b0 - 224) * 4096 + (bytes[2] - 128) * 64 + (bytes[3] - 128)
                    ELSE (b0 - 240) * 262144 + (bytes[2] - 128) * 4096
                         + (bytes[3] - 128) * 64 + (bytes[4] - 128)
         IN  IF ~good THEN [ok |-> FALSE, s |-> << >>]
             ELSE LET rest == from_utf8(SubSeq(bytes, len + 1, Len(bytes)))
                  IN  IF rest.ok THEN [ok |-> TRUE, s |-> << cp >> \o rest.s]
                      ELSE rest

string_para_biguint(t) == from_bytes_be(as_bytes(t))

\* String::from_utf8(numero.to_bytes_be()).unwrap_or_default()
biguint_para_string(v) ==
    LET r == from_utf8(to_bytes_be(v))
    IN  IF r.ok THEN r.s ELSE << >>

\* the scalar values of the model's texts: NUL, 'A', '~', U+0085 (a control),
\* e-acute (two bytes) and the euro sign (three bytes)
Alphabet == { 0, 65, 126, 133, 233, 8364 }

Textos ==
    { t \in UNION { [1 .. l -> Alphabet] : l \in 0 .. MaxTextoBytes } :
        Len(as_bytes(t)) <= MaxTextoBytes }

\* the bytes of the integers decoded directly
ByteSample == { 0, 65, 128, 169, 195, 255 }

Numeros ==
    { from_bytes_be(b) :
        b \in UNION { [1 .. l -> ByteSample] : l \in 0 .. MaxTextoBytes } }

\* let m = string_para_biguint(mensagem_original_str)
StringParaBiguint ==
    /\ pc = "idle"
    /\ \E t \in Textos :
         /\ texto' = t
         /\ numero' = string_para_biguint(t)
    /\ pc' = "encoded"
    /\ UNCHANGED << caller, mr_vars, key_vars, msg_vars, saida, panic_site >>

\* biguint_para_string is handed an integer that encodes no text
NumeroDado ==
    /\ pc = "idle"
    /\ \E v \in Numeros : numero' = v
    /\ pc' = "numero"
    /\ UNCHANGED << caller, mr_vars, key_vars, msg_vars, texto, saida, panic_site >>

\* biguint_para_string(&numero)
BiguintParaString ==
    /\ pc \in { "encoded", "numero" }
    /\ saida' = biguint_para_string(numero)
    /\ pc' = IF pc = "encoded" THEN "decoded" ELSE "decoded_numero"
    /\ UNCHANGED << caller, mr_vars, key_vars, msg_vars, texto, numero, panic_site >>

---------------------------------------------------------------------------
(* The specification *)

Init ==
    /\ pc = "idle"
    /\ caller = "main"
    /\ mr_n = 0 /\ mr_k = 0 /\ mr_r = 0 /\ mr_d = 0 /\ mr_i = 0 /\ mr_a = 0
    /\ mr_ret = FALSE
    /\ tamanho_bits = 0
    /\ stage = "p"
    /\ p = 0 /\ q = 0 /\ phi_n = 0
    /\ chave_publica = NoKey
    /\ chave_privada = NoPriv
    /\ m = 0 /\ c = 0 /\ m_dec = 0
    /\ texto = << >>
    /\ numero = 0
    /\ saida = << >>
    /\ panic_site = ""

Next ==
    \/ CallIsProbablyPrime
    \/ WitnessPanic
    \/ Witness
    \/ CallGerarChaves
    \/ GerarPrimoSample
    \/ GerarPrimoTest
    \/ DerivarChaves
    \/ Criptografar
    \/ Descriptografar
    \/ StringParaBiguint
    \/ NumeroDado
    \/ BiguintParaString

Spec == Init /\ [][Next]_vars

---------------------------------------------------------------------------
(* Definitions the properties are stated with *)

\* v is prime (every value of the model is below 10^6, so trial division
\* up to 1000 decides it)
IsPrime(v) == v >= 2 /\ \A f \in 2 .. Min(v - 1, 1000) : v % f # 0

RECURSIVE Gcd(_, _)
Gcd(x, y) == IF y = 0 THEN x ELSE Gcd(y, x % y)

\* phi(n) recomputed from the factors
Phi == (p - 1) * (q - 1)

\* gerar_chaves has returned its key pair
KeysReturned == pc \in { "keys", "encrypted", "decrypted" }

\* is_probably_prime is running, has returned or has panicked
InTester ==
    \/ pc \in { "mr_loop", "mr_ret" }
    \/ pc = "panic" /\ panic_site = "gen_biguint_range"

\* is_probably_prime returned b without drawing a witness
ReturnedAtOnce(b) == pc = "mr_ret" /\ mr_ret = b /\ mr_a = 0 /\ mr_i = 0

\* the r >= 1 and the odd d with n - 1 = 2^r * d, for odd n > 2
RefR(n) ==
    CHOOSE r \in 1 .. BitLen(n - 1) :
        (n - 1) % Pow2(r) = 0 /\ ((n - 1) \div Pow2(r)) % 2 = 1

RefD(n) == (n - 1) \div Pow2(RefR(n))

\* the reference procedure: witness a passes for n
RefPasses(a, n) ==
    LET r == RefR(n)
        d == (n - 1) \div Pow2(r)
        x == ModPow(a, d, n)
    IN  IF x = 1 \/ x = n - 1 THEN TRUE
        ELSE \E i \in 1 .. r - 1 : ModPow(a, Pow2(i) * d, n) = n - 1

\* a printable character: not a C0 control, DEL or a C1 control
Printable(t) ==
    \A i \in 1 .. Len(t) : t[i] >= 32 /\ t[i] # 127 /\ ~(128 <= t[i] /\ t[i] <= 159)

---------------------------------------------------------------------------
(* Properties *)

\* C1: RSA round trip.  For every key pair gerar_chaves returns from primes
\* p and q (p = q included) and every message 0 <= m < n, decrypting the
\* encryption of m gives m.
C1_RoundTrip ==
    (pc = "decrypted" /\ IsPrime(p) /\ IsPrime(q) /\ m < chave_publica.n)
        => m_dec = m

\* C2: for every key pair returned from primes p and q, (e * d) mod phi(n)
\* is 1, with e = 65537 and phi(n) recomputed from the factors.
C2_Inverse ==
    (KeysReturned /\ IsPrime(p) /\ IsPrime(q))
        => /\ chave_publica.e = E
           /\ MulMod(chave_publica.e, chave_privada.d, Phi) = 1

\* C3: every value gerar_primo(bits) returns has exactly `bits` significant
\* bits (top bit set).
C3_ExactBits ==
    /\ p # 0 => BitLen(p) = tamanho_bits \div 2
    /\ q # 0 => BitLen(q) = tamanho_bits \div 2

C5_WitnessRange ==
    (InTester /\ mr_a # 0) => (2 <= mr_a /\ mr_a <= mr_n - 2)

\* C6, as stated: decoding the encoding of a printable text of fewer than
\* key-size / 8 bytes gives the text.
C6_RoundTrip ==
    (pc = "decoded" /\ Printable(texto)
        /\ Len(as_bytes(texto)) < TamanhoChave \div 8)
        => saida = texto

\* C6, amended: decoding the encoding of a non-empty printable text of
\* fewer than key-size / 8 bytes gives the text.
C6_RoundTripNonEmpty ==
    (pc = "decoded" /\ Printable(texto) /\ texto # << >>
        /\ Len(as_bytes(texto)) < TamanhoChave \div 8)
        => saida = texto

C6_Witness ==
    /\ pc = "decoded"
    /\ Printable(texto)
    /\ Len(texto) = 1
    /\ Len(as_bytes(texto)) = 2
    /\ saida = texto

\* C7: for every key pair returned, e and d are positive and strictly less
\* than phi(n).
C7_ExponentRange ==
    KeysReturned
        => /\ 0 < chave_publica.e /\ chave_publica.e < Phi
           /\ 0 < chave_privada.d /\ chave_privada.d < Phi

\* C8: whatever k >= 1, and without a witness being drawn,
\* is_probably_prime(n, k) returns false for n <= 1, true for n = 2 and
\* false for every even n > 2.
C8_BaseCases ==
    (InTester /\ mr_k >= 1)
        => /\ mr_n <= 1 => ReturnedAtOnce(FALSE)
           /\ mr_n = 2 => ReturnedAtOnce(TRUE)
           /\ (mr_n > 2 /\ mr_n % 2 = 0) => ReturnedAtOnce(FALSE)

C8_Witness ==
    /\ pc = "mr_ret"
    /\ caller = "main"
    /\ mr_n = 2
    /\ mr_k = MaxK
    /\ mr_ret = TRUE

\* C9: on odd n > 2, each trial of is_probably_prime decides its witness as
\* the reference procedure does: the trial goes on to the next witness iff
\* the witness passes, the function returns false at the first witness
\* that does not pass, and it returns true exactly when k witnesses passed.
C9_TrialAsReference ==
    (pc = "mr_loop" /\ pc' # "panic" /\ mr_a' # 0)
        => /\ mr_n % 2 = 1 /\ mr_n > 2
           /\ mr_r = RefR(mr_n) /\ mr_d = RefD(mr_n)
           /\ IF RefPasses(mr_a', mr_n)
              THEN /\ mr_i' = mr_i + 1
                   /\ IF mr_i' = mr_k
                      THEN pc' = "mr_ret" /\ mr_ret' = TRUE
                      ELSE pc' = "mr_loop"
              ELSE /\ mr_i' = mr_i
                   /\ pc' = "mr_ret"
                   /\ mr_ret' = FALSE

\* C9, the result: true is returned exactly after k passing witnesses, and
\* false only on a witness that does not pass.
C9_ResultAsReference ==
    (pc = "mr_ret" /\ mr_n % 2 = 1 /\ mr_n > 2)
        => /\ mr_ret = (mr_i = mr_k)
           /\ (mr_ret \/ ~RefPasses(mr_a, mr_n))

\* C9: is_probably_prime on odd n > 2 returns what the reference procedure
\* returns on the same witnesses (the two parts above, in every state and
\* at every step).
C9_Refinement == [](C9_ResultAsReference) /\ [][C9_TrialAsReference]_vars

C9_Witness ==
    /\ pc = "mr_ret"
    /\ caller = "main"
    /\ mr_r >= 2
    /\ mr_i = 1
    /\ mr_k = MaxK
    /\ mr_ret = FALSE

\* C10: for every prime n >= 2 and every k >= 1, is_probably_prime(n, k)
\* completes, whatever witnesses it draws, and returns true.
C10_NoAbortOnPrimes ==
    (InTester /\ mr_k >= 1 /\ IsPrime(mr_n))
        => /\ pc # "panic"
           /\ pc = "mr_ret" => mr_ret = TRUE

===========================================================================
